---------------------------- MODULE Spec2Model ----------------------------
(***************************************************************************)
(* A model of the bbcode parser (src/src/lib.rs and the recognizer         *)
(* modules), of the render traversal and of the SimpleHtml sink            *)
(* (src/src/render.rs).                                                    *)
(*                                                                         *)
(* A string is a sequence of characters; a character is a one-element     *)
(* token.  "U2" and "U3" stand for one character whose UTF-8 encoding is   *)
(* two resp. three bytes long (such as e-acute and a CJK ideograph); every *)
(* other character is ASCII and one byte long.  The parser's &str values   *)
(* are views into the input: a view is the input s together with the       *)
(* position p (1-based, in characters) at which the view starts; a span    *)
(* is a pair of positions [b, e).                                          *)
(***************************************************************************)
EXTENDS Integers, Sequences, FiniteSets, TLC

VARIABLES
    input,      \* the text handed to parse
    pos,        \* _parse: start of the remaining input (`input`)
    out,        \* _parse: the segments pushed so far (`out`)
    pc,         \* "parse" | "parsed" | "panic" | "render" | "rendered" |
                \* "failed" | "abort"
    stack,      \* render: the activation records of the recursive traversal
    hooks,      \* render: the hook calls the sink has received, in order
    written,    \* SimpleHtml: the characters written to `self.out`
    stdout      \* the lines println! has written to the standard output

vars == <<input, pos, out, pc, stack, hooks, written, stdout>>

---------------------------------------------------------------------------
(* Characters and bytes *)

UpperCase == <<"A","B","C","D","E","F","G","H","I","J","K","L","M",
               "N","O","P","Q","R","S","T","U","V","W","X","Y","Z">>
LowerCase == <<"a","b","c","d","e","f","g","h","i","j","k","l","m",
               "n","o","p","q","r","s","t","u","v","w","x","y","z">>
Digits == <<"0","1","2","3","4","5","6","7","8","9">>

IndexIn(c, seq) ==
    IF \E i \in DOMAIN seq : seq[i] = c
    THEN CHOOSE i \in DOMAIN seq : seq[i] = c
    ELSE 0

LowerOf == [c \in {UpperCase[i] : i \in DOMAIN UpperCase} |->
               LowerCase[IndexIn(c, UpperCase)]]

\* char::to_ascii_lowercase
to_ascii_lowercase(c) == IF c \in DOMAIN LowerOf THEN LowerOf[c] ELSE c

\* a comparison that tells upper case from lower case
C5_MutantExactCase(a, b) == a = b

\* char::eq_ignore_ascii_case
eq_ignore_ascii_case(a, b) ==
    a = b \/ to_ascii_lowercase(a) = to_ascii_lowercase(b)

\* char::len_utf8
len_utf8(c) == IF c = "U2" THEN 2 ELSE IF c = "U3" THEN 3 ELSE 1

\* number of bytes of the k characters of s that start at position p
RECURSIVE BytesOf(_, _, _)
BytesOf(s, p, k) ==
    IF k <= 0 \/ p > Len(s) THEN 0
    ELSE len_utf8(s[p]) + BytesOf(s, p + 1, k - 1)

\* str::len of the view of s that starts at p is less than n; as every
\* character has at least one byte, the first n characters decide it
len_less(s, p, n) == BytesOf(s, p, n) < n

\* str::is_char_boundary: byte offset n of the view s[p..] starts a character
\* (or is the end of the view)
is_char_boundary(s, p, n) ==
    \E k \in 0..n : BytesOf(s, p, k) = n

\* the view s[p..] starts with the ASCII literal t, ignoring ASCII case
PrefixNoCase(s, p, t) ==
    /\ Len(s) - p + 1 >= Len(t)
    /\ \A i \in 1..Len(t) : eq_ignore_ascii_case(s[p + i - 1], t[i])

\* the view s[p..] starts with the literal t exactly
PrefixExact(s, p, t) ==
    /\ Len(s) - p + 1 >= Len(t)
    /\ \A i \in 1..Len(t) : s[p + i - 1] = t[i]

---------------------------------------------------------------------------
(* Parser results: nom's IResult plus a panic of the thread.               *)
(*   k = "ok"    Ok((tail, value)): p is the start of the tail, v the value *)
(*   k = "err"   Err(Err::Error(_))                                         *)
(*   k = "inc"   Err(Err::Incomplete(_))                                    *)
(*   k = "panic" the call panicked                                          *)

Ok(p, v) == [k |-> "ok", p |-> p, v |-> v]
Fail(k) == [k |-> k, p |-> 0, v |-> <<>>]
IsOk(r) == r.k = "ok"

\* terminated!(.., closing): once the closing parser succeeded at c, the
\* value v collected before it is the result
Keep(c, v) == IF IsOk(c) THEN Ok(c.p, v) ELSE c

\* preceded!, do_parse!: the rest runs once the first parser succeeded
Preceded(first, rest) == IF IsOk(first) THEN rest ELSE first

\* alt!: only an Error moves on to the next alternative
OrElse(r, alternative) == IF r.k = "err" THEN alternative ELSE r

\* alt_complete!: an Error or an Incomplete moves on to the next alternative
OrElseComplete(r, alternative) ==
    IF r.k = "err" \/ r.k = "inc" THEN alternative ELSE r

\* opt!(parser) at p: an Error becomes None (<<>>) with nothing consumed,
\* a success becomes Some (a one-element tuple)
opt(p, r) ==
    IF r.k = "err" THEN Ok(p, <<>>)
    ELSE IF IsOk(r) THEN Ok(r.p, <<r.v>>)
    ELSE r

\* tag_no_case!(t) on a &str: a mismatch within the common length is an
\* error, a view shorter than the literal is incomplete
tag_no_case(s, p, t) ==
    IF \E i \in 1..Len(t) :
           p + i - 1 <= Len(s) /\ ~eq_ignore_ascii_case(s[p + i - 1], t[i])
    THEN Fail("err")
    ELSE IF Len(s) - p + 1 >= Len(t) THEN Ok(p + Len(t), <<p, p + Len(t)>>)
    ELSE Fail("inc")

\* tag!(t) on a &str: as tag_no_case!, comparing exactly
tag(s, p, t) ==
    IF \E i \in 1..Len(t) : p + i - 1 <= Len(s) /\ s[p + i - 1] # t[i]
    THEN Fail("err")
    ELSE IF Len(s) - p + 1 >= Len(t) THEN Ok(p + Len(t), <<p, p + Len(t)>>)
    ELSE Fail("inc")

\* char!(c) on a &str
char(s, p, c) ==
    IF p > Len(s) THEN Fail("inc")
    ELSE IF s[p] = c THEN Ok(p + 1, c)
    ELSE Fail("err")

\* take_until_and_consume!(t) on a &str: the span before the first exact
\* occurrence of t, the tail starting after it
RECURSIVE take_until_and_consume_from(_, _, _, _)
take_until_and_consume_from(s, p, idx, t) ==
    IF idx > Len(s) + 1 THEN Fail("inc")
    ELSE IF PrefixExact(s, idx, t) THEN Ok(idx + Len(t), <<p, idx>>)
    ELSE take_until_and_consume_from(s, p, idx + 1, t)

take_until_and_consume(s, p, t) == take_until_and_consume_from(s, p, p, t)

\* nom's streaming digit1 / hex_digit1 / alphanumeric1: the longest run of
\* characters of `class` from p; a run that reaches the end of the view is
\* incomplete, an empty run is an error
RECURSIVE take_class1_from(_, _, _, _)
take_class1_from(s, p, e, class) ==
    IF e > Len(s) THEN Fail("inc")
    ELSE IF s[e] \in class THEN take_class1_from(s, p, e + 1, class)
    ELSE IF e = p THEN Fail("err")
    ELSE Ok(e, <<p, e>>)

take_class1(s, p, class) == take_class1_from(s, p, p, class)

Range(seq) == {seq[i] : i \in DOMAIN seq}

DigitChars == Range(Digits)
HexChars == DigitChars \cup {"a","b","c","d","e","f","A","B","C","D","E","F"}
AlnumChars == DigitChars \cup Range(LowerCase) \cup Range(UpperCase)

---------------------------------------------------------------------------
(* Segments (enum Segment, lib.rs) *)

Text(b, e) == [kind |-> "Text", b |-> b, e |-> e]
Code(b, e) == [kind |-> "Code", b |-> b, e |-> e]
Image(b, e) == [kind |-> "Image", b |-> b, e |-> e]
Decorated(style, text) == [kind |-> "Decorated", style |-> style, text |-> text]
Quote(attribution, body) ==
    [kind |-> "Quote", attribution |-> attribution, body |-> body]
List(style, items) == [kind |-> "List", style |-> style, items |-> items]
Link(target, text) == [kind |-> "Link", target |-> target, text |-> text]

\* enum DecorationStyle (decoration.rs); a style is a tuple headed by its name
Bold == <<"Bold">>
Italic == <<"Italic">>
Underline == <<"Underline">>
Center == <<"Center">>
Color(r, g, b) == <<"Color", r, g, b>>
Size(n) == <<"Size", n>>

---------------------------------------------------------------------------
(* Terminals (trait Terminal, lib.rs).  A terminal is the sequence of its  *)
(* literals: <<>> for (), <<t>> for a &str, <<t1, t2>> for &[&str; 2].     *)
(* leads answers "true", "false" or "panic".                               *)

\* impl Terminal for &str
leads_str(t, s, p) ==
    IF len_less(s, p, Len(t)) THEN "false"
    ELSE IF ~is_char_boundary(s, p, Len(t)) THEN "panic"   \* &s[..self.len()]
    ELSE IF PrefixNoCase(s, p, t) THEN "true"
    ELSE "false"

\* any(): the first answer that is not "false"
FirstLead(l, others) == IF l = "false" THEN others ELSE l

\* impl Terminal for () and for &[&str; 2]
RECURSIVE leads_from(_, _, _, _)
leads_from(T, i, s, p) ==
    IF i > Len(T) THEN "false"
    ELSE FirstLead(leads_str(T[i], s, p), leads_from(T, i + 1, s, p))

leads(T, s, p) == leads_from(T, 1, s, p)

---------------------------------------------------------------------------
(* Tag literals *)

\* the literals of the tags, as the recognizers write them
Lit ==
    [ b |-> <<"[","b","]">>,
      b_end |-> <<"[","/","b","]">>,
      i |-> <<"[","i","]">>,
      i_end |-> <<"[","/","i","]">>,
      u |-> <<"[","u","]">>,
      u_end |-> <<"[","/","u","]">>,
      center |-> <<"[","c","e","n","t","e","r","]">>,
      center_end |-> <<"[","/","c","e","n","t","e","r","]">>,
      color |-> <<"[","c","o","l","o","r","=">>,
      color_end |-> <<"[","/","c","o","l","o","r","]">>,
      size |-> <<"[","s","i","z","e","=">>,
      size_end |-> <<"[","/","s","i","z","e","]">>,
      code |-> <<"[","c","o","d","e","]">>,
      code_end |-> <<"[","/","c","o","d","e","]">>,
      img |-> <<"[","i","m","g","]">>,
      img_end |-> <<"[","/","i","m","g","]">>,
      list |-> <<"[","l","i","s","t">>,
      list_end |-> <<"[","/","l","i","s","t","]">>,
      bullet |-> <<"[","*","]">>,
      quote |-> <<"[","q","u","o","t","e">>,
      quote_end |-> <<"[","/","q","u","o","t","e","]">>,
      url |-> <<"[","u","r","l","]">>,
      url_end |-> <<"[","/","u","r","l","]">>,
      url_quoted |-> <<"[","u","r","l","=","\"">>,
      url_eq |-> <<"[","u","r","l","=">> ]

---------------------------------------------------------------------------
(* The recognizers.  segment, the recognizers and text_segment call each   *)
(* other; segment is declared first.                                       *)

RECURSIVE segment(_, _, _)

\* many0!(call!(segment, T)).  One round on the result r of segment at p: a
\* success that consumed something goes round again; one that consumed
\* nothing is an error (a &str is never at_eof); an Error ends the loop
RECURSIVE many0_segment_from(_, _, _, _)
many0_segment_round(s, p, T, acc, r) ==
    IF IsOk(r)
    THEN (IF r.p = p THEN Fail("err")
          ELSE many0_segment_from(s, r.p, T, Append(acc, r.v)))
    ELSE IF r.k = "err" THEN Ok(p, acc)
    ELSE r

many0_segment_from(s, p, T, acc) ==
    many0_segment_round(s, p, T, acc, segment(s, p, T))

many0_segment(s, p, T) == many0_segment_from(s, p, T, <<>>)

\* tag_no_case!(close) after the body
close_after(s, body, close) ==
    IF IsOk(body) THEN Keep(tag_no_case(s, body.p, close), body.v) ELSE body

\* terminated!(many0!(call!(segment, close)), tag_no_case!(close))
body_then_close(s, p, close) ==
    close_after(s, many0_segment(s, p, <<close>>), close)

\* delimited!(tag_no_case!(open), many0!(call!(segment, close)),
\*            tag_no_case!(close)), also the simple_tag! macro
simple_tag(s, p, open, close) ==
    Preceded(tag_no_case(s, p, open), body_then_close(s, p + Len(open), close))

bold(s, p) == simple_tag(s, p, Lit.b, Lit.b_end)
italic(s, p) == simple_tag(s, p, Lit.i, Lit.i_end)
underline(s, p) == simple_tag(s, p, Lit.u, Lit.u_end)
center(s, p) == simple_tag(s, p, Lit.center, Lit.center_end)

\* styled(style) under map!
styled(style, r) ==
    IF IsOk(r) THEN Ok(r.p, Decorated(style, r.v)) ELSE r

\* u8::from_str_radix(_, 16) of one or two hex digits
HexDigits == <<"0","1","2","3","4","5","6","7","8","9","a","b","c","d","e","f">>
hex_value(c) == IndexIn(to_ascii_lowercase(c), HexDigits) - 1
hex_byte(s, b) == 16 * hex_value(s[b]) + hex_value(s[b + 1])

\* a widening that keeps the shifted digit only
C7_MutantShiftOnly(r) == (r * 16) % 256

\* r + (r << 4) on a u8
widen_nibble(r) == (r + ((r * 16) % 256)) % 256

\* the closure of rgb_color on the digits in [b, e)
rgb_of_digits(s, b, e) ==
    IF e - b = 3
    THEN <<widen_nibble(hex_value(s[b])), widen_nibble(hex_value(s[b + 1])),
           widen_nibble(hex_value(s[b + 2]))>>
    ELSE <<hex_byte(s, b), hex_byte(s, b + 2), hex_byte(s, b + 4)>>

\* verify!(nom::hex_digit1, |d| d.len() == 3 || d.len() == 6) and the map!
rgb_of_run(s, d) ==
    IF ~IsOk(d) THEN d
    ELSE IF d.v[2] - d.v[1] = 3 \/ d.v[2] - d.v[1] = 6
         THEN Ok(d.p, rgb_of_digits(s, d.v[1], d.v[2]))
         ELSE Fail("err")

\* rgb_color: '#' then three or six hex digits
rgb_color(s, p) ==
    Preceded(char(s, p, "#"), rgb_of_run(s, take_class1(s, p + 1, HexChars)))

\* palette::named::from_str: the CSS color names; the part of the table the
\* model's inputs can spell
named_from_str(name) ==
    IF name = <<"r","e","d">> THEN <<255, 0, 0>>
    ELSE IF name = <<"t","a","n">> THEN <<210, 180, 140>>
    ELSE <<>>

\* verify!(map!(alphanumeric1, from_str), |c| c.is_some()) and the unwrap
css_of_run(s, a) ==
    IF ~IsOk(a) THEN a
    ELSE IF named_from_str(SubSeq(s, a.v[1], a.v[2] - 1)) = <<>>
         THEN Fail("err")
         ELSE Ok(a.p, named_from_str(SubSeq(s, a.v[1], a.v[2] - 1)))

\* css_color: an alphanumeric run that names a color
css_color(s, p) == css_of_run(s, take_class1(s, p, AlnumChars))

\* char!(']') after the value v of a head
close_bracket(s, v) ==
    IF IsOk(v) THEN Keep(char(s, v.p, "]"), v.v) ELSE v

\* color_head: "[color=", alt!(rgb_color | css_color), ']'
color_head(s, p) ==
    Preceded(tag_no_case(s, p, Lit.color),
             close_bracket(s, OrElse(rgb_color(s, p + Len(Lit.color)),
                                     css_color(s, p + Len(Lit.color)))))

\* the body of color after its head h
color_body(s, h) ==
    IF IsOk(h)
    THEN styled(Color(h.v[1], h.v[2], h.v[3]),
                body_then_close(s, h.p, Lit.color_end))
    ELSE h

color(s, p) == color_body(s, color_head(s, p))

\* str::parse::<u8> of the digits in [b, e): the value, or -1 on overflow
RECURSIVE parse_u8_from(_, _, _, _)
parse_u8_from(s, b, e, acc) ==
    IF b >= e THEN acc
    ELSE IF acc * 10 + (IndexIn(s[b], Digits) - 1) > 255 THEN -1
    ELSE parse_u8_from(s, b + 1, e, acc * 10 + (IndexIn(s[b], Digits) - 1))

\* a conversion that wraps at 8 bits instead of failing
RECURSIVE C6_MutantWrappingFrom(_, _, _, _)
C6_MutantWrappingFrom(s, b, e, acc) ==
    IF b >= e THEN acc
    ELSE C6_MutantWrappingFrom(s, b + 1, e,
             (acc * 10 + (IndexIn(s[b], Digits) - 1)) % 256)

C6_MutantWrapping(s, b, e) == C6_MutantWrappingFrom(s, b, e, 0)

parse_u8(s, b, e) == parse_u8_from(s, b, e, 0)

\* map_opt!(verify!(map_res!(.., str::parse::<u8>), |x| x >= 2 && x < 30),
\*          NonZeroU8::new) on the parsed number x (-1: parse failed)
size_of_u8(p, x) ==
    IF x < 0 THEN Fail("err")
    ELSE IF ~(x >= 2 /\ x < 30) THEN Fail("err")
    ELSE IF x = 0 THEN Fail("err")
    ELSE Ok(p, x)

\* char!(']') after the digits d, then the number
size_number(s, d) ==
    IF IsOk(d)
    THEN Preceded(char(s, d.p, "]"),
                  size_of_u8(d.p + 1, parse_u8(s, d.v[1], d.v[2])))
    ELSE d

\* size_head: "[size=", digits, ']', then the number
size_head(s, p) ==
    Preceded(tag_no_case(s, p, Lit.size),
             size_number(s, take_class1(s, p + Len(Lit.size), DigitChars)))

\* the body of size after its head h
size_body(s, h) ==
    IF IsOk(h)
    THEN styled(Size(h.v), body_then_close(s, h.p, Lit.size_end))
    ELSE h

size(s, p) == size_body(s, size_head(s, p))

\* decorated: alt!(bold | italic | underline | center | color | size)
decorated(s, p) ==
    OrElse(styled(Bold, bold(s, p)),
    OrElse(styled(Italic, italic(s, p)),
    OrElse(styled(Underline, underline(s, p)),
    OrElse(styled(Center, center(s, p)),
    OrElse(color(s, p),
           size(s, p))))))

\* take_until_no_case!(t): the span before the first occurrence of t,
\* ignoring ASCII case; the tail starts at the occurrence
RECURSIVE take_until_no_case_from(_, _, _, _)
take_until_no_case_from(s, p, idx, t) ==
    IF idx > Len(s) THEN Fail("inc")
    ELSE IF len_less(s, idx, Len(t)) THEN Fail("inc")
    ELSE IF \A i \in 1..Len(t) :
                idx + i - 1 <= Len(s) =>
                    eq_ignore_ascii_case(t[i], s[idx + i - 1])
         THEN Ok(idx, <<p, idx>>)
         ELSE take_until_no_case_from(s, p, idx + 1, t)

take_until_no_case(s, p, t) == take_until_no_case_from(s, p, p, t)

\* delimited!(tag_no_case!(open), take_until_no_case!(close),
\*            tag_no_case!(close)): a verbatim body
verbatim_tag(s, p, open, close) ==
    Preceded(tag_no_case(s, p, open),
             close_after(s, take_until_no_case(s, p + Len(open), close), close))

\* map!(.., Segment::Text), map!(.., Segment::Code),
\* map!(.., |src| Segment::Image { src }): the leaf of a span
leaf_of(kind, r) ==
    IF IsOk(r) THEN Ok(r.p, [kind |-> kind, b |-> r.v[1], e |-> r.v[2]]) ELSE r

code(s, p) == leaf_of("Code", verbatim_tag(s, p, Lit.code, Lit.code_end))

image(s, p) == leaf_of("Image", verbatim_tag(s, p, Lit.img, Lit.img_end))

\* the match of listhead on the optional style character
list_style(style) ==
    IF style = <<>> THEN "Unordered"
    ELSE IF style = <<"1">> THEN "Numeric"
    ELSE "Alphabetic"

\* char!(']') after the optional style st, and the map!
listhead_close(s, st) ==
    IF IsOk(st) THEN Keep(char(s, st.p, "]"), list_style(st.v)) ELSE st

\* opt!(preceded!(char!('='), alt!(char!('a') | char!('1')))) at p
list_style_opt(s, p) ==
    opt(p, Preceded(char(s, p, "="),
                    OrElse(char(s, p + 1, "a"), char(s, p + 1, "1"))))

\* listhead: "[list", opt!('=' then 'a' or '1'), ']'
listhead(s, p) ==
    Preceded(tag_no_case(s, p, Lit.list),
             listhead_close(s, list_style_opt(s, p + Len(Lit.list))))

\* a terminal set without the bullet marker
C8_MutantNoBullet == <<Lit.list_end>>

\* the terminal of an item body: &["[*]", "[/list]"]
ListTerminal == <<Lit.bullet, Lit.list_end>>

\* preceded!(tag_no_case!("[*]"), many0!(call!(segment, &["[*]", "[/list]"])))
list_item(s, p) ==
    Preceded(tag_no_case(s, p, Lit.bullet),
             many0_segment(s, p + Len(Lit.bullet), ListTerminal))

\* many0!(preceded!(..)): one round on the result r of the item at p
RECURSIVE many0_item_from(_, _, _)
many0_item_round(s, p, acc, r) ==
    IF IsOk(r)
    THEN (IF r.p = p THEN Fail("err")
          ELSE many0_item_from(s, r.p, Append(acc, r.v)))
    ELSE IF r.k = "err" THEN Ok(p, acc)
    ELSE r

many0_item_from(s, p, acc) == many0_item_round(s, p, acc, list_item(s, p))

\* tag_no_case!("[/list]") after the items, and the List
list_close(s, style, items) ==
    IF IsOk(items)
    THEN Keep(tag_no_case(s, items.p, Lit.list_end), List(style, items.v))
    ELSE items

\* the items after the head h
list_items(s, h) ==
    IF IsOk(h) THEN list_close(s, h.v, many0_item_from(s, h.p, <<>>)) ELSE h

list(s, p) == list_items(s, listhead(s, p))

\* char!(']') after the optional attribution at: None is <<>>, Some a span
qhead_close(s, at) ==
    IF IsOk(at)
    THEN Keep(char(s, at.p, "]"), IF at.v = <<>> THEN <<>> ELSE at.v[1])
    ELSE at

\* opt!(preceded!(tag!("=\""), take_until_and_consume!("\""))) at p
qhead_attribution(s, p) ==
    opt(p, Preceded(tag(s, p, <<"=", "\"">>),
                    take_until_and_consume(s, p + 2, <<"\"">>)))

\* qhead: "[quote", opt!("=\"" then the text up to the next '"'), ']'
qhead(s, p) ==
    Preceded(tag_no_case(s, p, Lit.quote),
             qhead_close(s, qhead_attribution(s, p + Len(Lit.quote))))

\* map!(.., |(attribution, body)| Quote { attribution, body })
quote_of(attribution, r) ==
    IF IsOk(r) THEN Ok(r.p, Quote(attribution, r.v)) ELSE r

\* the body of quote after its head h
quote_body(s, h) ==
    IF IsOk(h) THEN quote_of(h.v, body_then_close(s, h.p, Lit.quote_end)) ELSE h

quote(s, p) == quote_body(s, qhead(s, p))

\* the first form of url: target = text
link_of_body(r) ==
    IF IsOk(r) THEN Ok(r.p, Link(r.v, <<Text(r.v[1], r.v[2])>>)) ELSE r

url_bare(s, p) == link_of_body(verbatim_tag(s, p, Lit.url, Lit.url_end))

\* ( Segment::Link { target, text } )
link_of(target, r) == IF IsOk(r) THEN Ok(r.p, Link(target, r.v)) ELSE r

\* text: many0!(..) >> tag_no_case!("[/url]") after the target
url_text(s, target) ==
    IF IsOk(target)
    THEN link_of(target.v, body_then_close(s, target.p, Lit.url_end))
    ELSE target

\* the two forms of url with a target: the opening, the target up to
\* `until`, the text and the closing tag
url_with_target(s, p, open, until) ==
    Preceded(tag_no_case(s, p, open),
             url_text(s, take_until_and_consume(s, p + Len(open), until)))

\* url: alt_complete!(bare | quote-delimited target | non-delimited target)
url(s, p) ==
    OrElseComplete(url_bare(s, p),
    OrElseComplete(url_with_target(s, p, Lit.url_quoted, <<"\"", "]">>),
    OrElseComplete(url_with_target(s, p, Lit.url_eq, <<"]">>),
                   Fail("err"))))

\* coded_segment: alt_complete!(decorated | code | image | list | quote | url)
coded_segment(s, p) ==
    OrElseComplete(decorated(s, p),
    OrElseComplete(code(s, p),
    OrElseComplete(image(s, p),
    OrElseComplete(list(s, p),
    OrElseComplete(quote(s, p),
    OrElseComplete(url(s, p),
                   Fail("err")))))))

\* the test of the loop of text_segment at one offset:
\* terminal.leads(search_point) || coded_segment(search_point).is_ok()
EndsText(l, coded) ==
    IF l = "panic" THEN "panic"
    ELSE IF l = "true" THEN "true"
    ELSE IF coded.k = "panic" THEN "panic"
    ELSE IF IsOk(coded) THEN "true"
    ELSE "false"

\* what the loop does with the answer at offset idx
OnEndsText(ends, idx, further) ==
    IF ends = "panic" THEN Fail("panic")
    ELSE IF ends = "true" THEN Ok(idx, <<>>)
    ELSE further

\* the loop of text_segment: the first offset after the first character at
\* which the terminal leads or a coded segment is found, else the end
RECURSIVE text_scan(_, _, _)
text_scan(s, idx, T) ==
    IF idx > Len(s) THEN Ok(Len(s) + 1, <<>>)
    ELSE OnEndsText(EndsText(leads(T, s, idx), coded_segment(s, idx)), idx,
                    text_scan(s, idx + 1, T))

\* Ok((&input[end..], &input[..end]))
text_of_scan(p, r) == IF IsOk(r) THEN Ok(r.p, <<p, r.p>>) ELSE r

\* what text_segment does with the answer of terminal.leads(input)
OnLeadsAtStart(l, scanned) ==
    IF l = "panic" THEN Fail("panic")
    ELSE IF l = "true" THEN Fail("err")
    ELSE scanned

\* text_segment: the tail and the text consumed, the span [p, tail)
text_segment(s, p, T) ==
    OnLeadsAtStart(leads(T, s, p), text_of_scan(p, text_scan(s, p + 1, T)))

\* segment: a coded segment, else text
CodedOrText(coded, text) ==
    IF IsOk(coded) \/ coded.k = "panic" THEN coded ELSE text

segment(s, p, T) ==
    CodedOrText(coded_segment(s, p), leaf_of("Text", text_segment(s, p, T)))

---------------------------------------------------------------------------
(* The lines the recognizers print.  take_until_no_case! calls println!    *)
(* while it scans; X_prints is the sequence of lines the call X writes to  *)
(* the standard output, in the order of evaluation of the combinators: an  *)
(* alternative runs only when the one before it failed, a body only after  *)
(* its head matched, and nothing runs after a panic.                       *)

\* take_until_no_case!: "Search idx {idx}: {rest:?}" at every offset tried,
\* and "End: target {} shorter than {}" when the rest is shorter in bytes
RECURSIVE take_until_no_case_prints(_, _, _, _)
take_until_no_case_prints(s, p, idx, t) ==
    IF idx > Len(s) THEN <<>>
    ELSE <<[line |-> "Search idx", idx |-> BytesOf(s, p, idx - p), rest |-> idx]>>
         \o (IF len_less(s, idx, Len(t))
             THEN <<[line |-> "End: target", target |-> Len(t),
                     than |-> BytesOf(s, idx, Len(s))]>>
             ELSE IF \A i \in 1..Len(t) :
                         idx + i - 1 <= Len(s) =>
                             eq_ignore_ascii_case(t[i], s[idx + i - 1])
                  THEN <<>>
                  ELSE take_until_no_case_prints(s, p, idx + 1, t))

\* delimited!(tag_no_case!(open), take_until_no_case!(close), ..)
verbatim_prints(s, p, open, close) ==
    IF IsOk(tag_no_case(s, p, open))
    THEN take_until_no_case_prints(s, p + Len(open), p + Len(open), close)
    ELSE <<>>

RECURSIVE segment_prints(_, _, _)

\* many0!(call!(segment, T)): the lines of this round, then of the next
\* rounds when the result r of this one consumed something
RECURSIVE many0_segment_prints(_, _, _)
many0_round_prints(s, p, T, r) ==
    IF IsOk(r) /\ r.p # p THEN many0_segment_prints(s, r.p, T) ELSE <<>>

many0_segment_prints(s, p, T) ==
    segment_prints(s, p, T) \o many0_round_prints(s, p, T, segment(s, p, T))

\* many0!(call!(segment, close)) after the head h of a tag
body_prints(s, h, close) ==
    IF IsOk(h) THEN many0_segment_prints(s, h.p, <<close>>) ELSE <<>>

\* alt!: the next alternative runs after an Error only
OrElsePrints(r, alternative) == IF r.k = "err" THEN alternative ELSE <<>>

\* alt_complete!: the next alternative runs after an Error or an Incomplete
OrElseCompletePrints(r, alternative) ==
    IF r.k = "err" \/ r.k = "inc" THEN alternative ELSE <<>>

\* decorated: bold, italic, underline, center, color, size in turn
decorated_prints(s, p) ==
    body_prints(s, tag_no_case(s, p, Lit.b), Lit.b_end)
    \o OrElsePrints(bold(s, p),
    body_prints(s, tag_no_case(s, p, Lit.i), Lit.i_end)
    \o OrElsePrints(italic(s, p),
    body_prints(s, tag_no_case(s, p, Lit.u), Lit.u_end)
    \o OrElsePrints(underline(s, p),
    body_prints(s, tag_no_case(s, p, Lit.center), Lit.center_end)
    \o OrElsePrints(center(s, p),
    body_prints(s, color_head(s, p), Lit.color_end)
    \o OrElsePrints(color(s, p),
    body_prints(s, size_head(s, p), Lit.size_end))))))

\* list: after the head, every item "[*]" with its body
RECURSIVE many0_item_prints(_, _)
many0_item_round_prints(s, p, r) ==
    IF IsOk(r) /\ r.p # p THEN many0_item_prints(s, r.p) ELSE <<>>

many0_item_prints(s, p) ==
    (IF IsOk(tag_no_case(s, p, Lit.bullet))
     THEN many0_segment_prints(s, p + Len(Lit.bullet), ListTerminal)
     ELSE <<>>)
    \o many0_item_round_prints(s, p, list_item(s, p))

list_prints(s, h) == IF IsOk(h) THEN many0_item_prints(s, h.p) ELSE <<>>

\* the opening and the target of the two forms of url with a target
url_target(s, p, open, until) ==
    Preceded(tag_no_case(s, p, open),
             take_until_and_consume(s, p + Len(open), until))

\* url: the bare form scans its body verbatim; the forms with a target
\* have a body of segments
url_prints(s, p) ==
    verbatim_prints(s, p, Lit.url, Lit.url_end)
    \o OrElseCompletePrints(url_bare(s, p),
    body_prints(s, url_target(s, p, Lit.url_quoted, <<"\"", "]">>), Lit.url_end)
    \o OrElseCompletePrints(url_with_target(s, p, Lit.url_quoted, <<"\"", "]">>),
    body_prints(s, url_target(s, p, Lit.url_eq, <<"]">>), Lit.url_end)))

\* coded_segment: decorated, code, image, list, quote, url in turn
coded_segment_prints(s, p) ==
    decorated_prints(s, p)
    \o OrElseCompletePrints(decorated(s, p),
    verbatim_prints(s, p, Lit.code, Lit.code_end)
    \o OrElseCompletePrints(code(s, p),
    verbatim_prints(s, p, Lit.img, Lit.img_end)
    \o OrElseCompletePrints(image(s, p),
    list_prints(s, listhead(s, p))
    \o OrElseCompletePrints(list(s, p),
    body_prints(s, qhead(s, p), Lit.quote_end)
    \o OrElseCompletePrints(quote(s, p),
    url_prints(s, p))))))

\* the loop of text_segment: coded_segment runs at every offset at which
\* the terminal does not lead, until it succeeds
RECURSIVE text_scan_prints(_, _, _)
text_scan_prints(s, idx, T) ==
    IF idx > Len(s) THEN <<>>
    ELSE IF leads(T, s, idx) # "false" THEN <<>>
    ELSE coded_segment_prints(s, idx)
         \o OrElseCompletePrints(coded_segment(s, idx),
                                 text_scan_prints(s, idx + 1, T))

\* segment: coded_segment, then text_segment when that found nothing.
\* Only take_until_no_case! prints, and it runs only after the opening tag
\* of a verbatim body matched: a view that holds none of them prints nothing
segment_prints(s, p, T) ==
    IF \A idx \in p..Len(s) : \A open \in {Lit.code, Lit.img, Lit.url} :
           ~PrefixNoCase(s, idx, open)
    THEN <<>>
    ELSE coded_segment_prints(s, p)
         \o OrElseCompletePrints(coded_segment(s, p),
                IF leads(T, s, p) = "false" THEN text_scan_prints(s, p + 1, T)
                ELSE <<>>)

---------------------------------------------------------------------------
(* parse / _parse (lib.rs) as a function: the segments, or "panic" *)

\* the match of the loop body on the result r of segment(&input, ())
RECURSIVE parse_from(_, _, _)
parse_round(s, acc, r) ==
    IF IsOk(r) THEN parse_from(s, r.p, Append(acc, r.v))
    ELSE [k |-> "panic", v |-> acc]

parse_from(s, p, acc) ==
    IF p > Len(s) THEN [k |-> "ok", v |-> acc]
    ELSE parse_round(s, acc, segment(s, p, <<>>))

parse(s) == parse_from(s, 1, <<>>)

---------------------------------------------------------------------------
(* Inputs: every concatenation of at most n fragments of a fragment set *)

RECURSIVE Concats(_, _)
Concats(F, n) ==
    IF n = 0 THEN {<<>>}
    ELSE LET S == Concats(F, n - 1) IN S \cup {x \o f : x \in S, f \in F}

MaxFrags == 4

TextFrags == {Lit.b, Lit.b_end, Lit.i, Lit.i_end, <<"x">>, <<"U3">>}

---------------------------------------------------------------------------
(* The parse loop of _parse, one iteration per step *)

InitOn(inputs) ==
    /\ input \in inputs
    /\ pos = 1
    /\ out = <<>>
    /\ pc = "parse"
    /\ stack = <<>>
    /\ hooks = <<>>
    /\ written = <<>>
    /\ stdout = <<>>

\* the match of the loop body of _parse on the result r of segment
PushOrPanic(r) ==
    IF IsOk(r)
    THEN /\ out' = Append(out, r.v)
         /\ pos' = r.p
         /\ pc' = pc
    ELSE /\ pc' = "panic"
         /\ UNCHANGED <<out, pos>>

\* one round of the loop: segment(&input, ()) and the push, or the panic
ParseSegment ==
    /\ pc = "parse"
    /\ pos <= Len(input)
    /\ PushOrPanic(segment(input, pos, <<>>))
    /\ stdout' = stdout \o segment_prints(input, pos, <<>>)
    /\ UNCHANGED <<input, stack, hooks, written>>

\* the break at the end of the input
ParseBreak ==
    /\ pc = "parse"
    /\ pos > Len(input)
    /\ pc' = "parsed"
    /\ UNCHANGED <<input, pos, out, stack, hooks, written, stdout>>

NextParse == ParseSegment \/ ParseBreak

Init == InitOn(Concats(TextFrags, MaxFrags))
Spec == Init /\ [][NextParse]_vars

---------------------------------------------------------------------------
(* Reading a tree: its leaf spans in source order *)

RECURSIVE Leaves(_)
RECURSIVE LeavesOfItems(_)
Leaves(segs) ==
    IF segs = <<>> THEN <<>>
    ELSE LET g == Head(segs)
             own == IF g.kind \in {"Text", "Code", "Image"} THEN <<g>>
                    ELSE IF g.kind = "Decorated" THEN Leaves(g.text)
                    ELSE IF g.kind = "Quote" THEN Leaves(g.body)
                    ELSE IF g.kind = "Link" THEN Leaves(g.text)
                    ELSE LeavesOfItems(g.items)
         IN  own \o Leaves(Tail(segs))
LeavesOfItems(items) ==
    IF items = <<>> THEN <<>>
    ELSE Leaves(Head(items)) \o LeavesOfItems(Tail(items))

\* every node of a tree, parents before children
RECURSIVE Nodes(_)
RECURSIVE NodesOfItems(_)
Nodes(segs) ==
    IF segs = <<>> THEN <<>>
    ELSE LET g == Head(segs)
             below == IF g.kind \in {"Text", "Code", "Image"} THEN <<>>
                      ELSE IF g.kind = "Decorated" THEN Nodes(g.text)
                      ELSE IF g.kind = "Quote" THEN Nodes(g.body)
                      ELSE IF g.kind = "Link" THEN Nodes(g.text)
                      ELSE NodesOfItems(g.items)
         IN  <<g>> \o below \o Nodes(Tail(segs))
NodesOfItems(items) ==
    IF items = <<>> THEN <<>>
    ELSE Nodes(Head(items)) \o NodesOfItems(Tail(items))

\* the characters of the inputs that occur in no tag literal
PlainChars == {"x", "U3", "U2", " ", "\n"}

---------------------------------------------------------------------------
(* C1 *)

\* C1: parse is total: on every input it returns; it never aborts.
C1_ParseNeverAborts == pc # "panic"

\* C1: every round of the top-level loop consumes at least one character.
C1_RoundsConsume == [][pos' >= pos /\ (out' # out => pos' > pos)]_vars

---------------------------------------------------------------------------
(* C2 *)

\* the leaf spans lie in [1, upto), each a contiguous piece of the input, in
\* increasing position and not overlapping
LeavesOrdered(ls, upto) ==
    /\ \A i \in DOMAIN ls : 1 <= ls[i].b /\ ls[i].b <= ls[i].e /\ ls[i].e <= upto
    /\ \A i \in DOMAIN ls : i > 1 => ls[i - 1].e <= ls[i].b

\* every plain character before upto lies in exactly one leaf span
PlainCovered(s, ls, upto) ==
    \A q \in 1..(upto - 1) :
        s[q] \in PlainChars =>
            Cardinality({i \in DOMAIN ls : ls[i].b <= q /\ q < ls[i].e}) = 1

\* no recognizer succeeds at any offset of s
NoRecognizerSucceeds(s) == \A q \in 1..Len(s) : ~IsOk(coded_segment(s, q))

\* C2: the segments parse returns reconstruct the visible text: every
\* character outside tag literals lies in exactly one leaf span, the spans
\* are contiguous pieces in increasing position; parse("") is empty; an
\* input on which no recognizer succeeds parses to one Text, the whole input.
C2_VisibleTextPreserved ==
    /\ LeavesOrdered(Leaves(out), pos)
    /\ PlainCovered(input, Leaves(out), pos)
    /\ (pc # "parse" /\ input = <<>> => pc = "parsed" /\ out = <<>>)
    /\ (pc # "parse" /\ input # <<>> /\ NoRecognizerSucceeds(input) =>
            pc = "parsed" /\ out = <<Text(1, Len(input) + 1)>>)

---------------------------------------------------------------------------
(* C3 *)

\* an opener `open` at q with no closer `close` anywhere after it
Unterminated(s, q, open, close) ==
    /\ PrefixNoCase(s, q, open)
    /\ \A r \in (q + 1)..Len(s) : ~PrefixNoCase(s, r, close)

InText(segs, b, e) ==
    \E i \in DOMAIN Leaves(segs) :
        /\ Leaves(segs)[i].kind = "Text"
        /\ Leaves(segs)[i].b <= b
        /\ e <= Leaves(segs)[i].e

Degrades(open, close) ==
    \A q \in 1..Len(input) :
        Unterminated(input, q, open, close) =>
            /\ pc # "panic"
            /\ (pc = "parsed" => InText(out, q, q + Len(open)))

\* C3: an opener without a later closer produces no node: its characters
\* are literal text, and parsing goes on to the end of the input.
C3_GracefulDegradation ==
    /\ Degrades(Lit.b, Lit.b_end)
    /\ Degrades(Lit.i, Lit.i_end)

---------------------------------------------------------------------------
(* C4: one well-formed tag inside the body of another *)

MaxNestText == 2

\* the text runs around and inside the inner tag
NestTexts == Concats({<<"x">>, <<"U3">>}, MaxNestText)

\* the tags that take the outer place: their opener, closer and node
OuterTags == {"b", "quote", "url", "list"}

OuterOpen(o) ==
    IF o = "b" THEN Lit.b
    ELSE IF o = "quote" THEN Lit.quote \o <<"]">>
    ELSE IF o = "url" THEN Lit.url_eq \o <<"x", "]">>
    ELSE Lit.list \o <<"]">> \o Lit.bullet

OuterClose(o) ==
    IF o = "b" THEN Lit.b_end
    ELSE IF o = "quote" THEN Lit.quote_end
    ELSE IF o = "url" THEN Lit.url_end
    ELSE Lit.list_end

OuterNode(o, children) ==
    IF o = "b" THEN Decorated(Bold, children)
    ELSE IF o = "quote" THEN Quote(<<>>, children)
    ELSE IF o = "url" THEN Link(<<6, 7>>, children)
    ELSE List("Unordered", <<children>>)

\* the tags that take the inner place
InnerTags == {"i", "b", "code"}

InnerOpen(n) == IF n = "i" THEN Lit.i ELSE IF n = "b" THEN Lit.b ELSE Lit.code
InnerClose(n) ==
    IF n = "i" THEN Lit.i_end ELSE IF n = "b" THEN Lit.b_end ELSE Lit.code_end

\* a run of text at [b, e) as children: nothing when it is empty
TextRun(b, e) == IF b = e THEN <<>> ELSE <<Text(b, e)>>

InnerNode(n, b, e) ==
    IF n = "i" THEN Decorated(Italic, TextRun(b, e))
    ELSE IF n = "b" THEN Decorated(Bold, TextRun(b, e))
    ELSE Code(b, e)

\* outer opener, text, inner tag around text, text, outer closer
NestInput(o, n, before, inside, after) ==
    OuterOpen(o) \o before \o InnerOpen(n) \o inside \o InnerClose(n)
        \o after \o OuterClose(o)

\* the tree the nesting rule gives for that input: one outer node whose
\* children are the text before, the inner node and the text after
NestTree(o, n, before, inside, after) ==
    <<OuterNode(o,
        TextRun(Len(OuterOpen(o)) + 1, Len(OuterOpen(o)) + Len(before) + 1)
        \o <<InnerNode(n,
                Len(OuterOpen(o)) + Len(before) + Len(InnerOpen(n)) + 1,
                Len(OuterOpen(o)) + Len(before) + Len(InnerOpen(n))
                    + Len(inside) + 1)>>
        \o TextRun(Len(OuterOpen(o)) + Len(before) + Len(InnerOpen(n))
                       + Len(inside) + Len(InnerClose(n)) + 1,
                   Len(OuterOpen(o)) + Len(before) + Len(InnerOpen(n))
                       + Len(inside) + Len(InnerClose(n)) + Len(after) + 1))>>

NestCases ==
    {[input |-> NestInput(o, n, x, y, z), tree |-> NestTree(o, n, x, y, z)] :
        o \in OuterTags, n \in InnerTags,
        x \in NestTexts, y \in NestTexts, z \in NestTexts}

SpecNest ==
    InitOn({c.input : c \in NestCases}) /\ [][NextParse]_vars

\* C4: a well-formed tag inside the body of another well-formed tag is
\* parsed as a child of the outer node, whose children are the body's text
\* runs and nested nodes in source order.
C4_Nesting ==
    pc # "parse" =>
        \A c \in NestCases :
            c.input = input => pc = "parsed" /\ out = c.tree

\* the same, on the runs in which parse returns
C4_NestingUnlessAborted == pc = "panic" \/ C4_Nesting

---------------------------------------------------------------------------
(* C5: the ASCII case of the letters of a tag's literals *)

\* ways of writing the letters of a literal: as they are (lower case), all
\* upper case, or alternating from the first or the second letter
CaseModes == {"lower", "upper", "odd", "even"}

to_ascii_uppercase(c) ==
    IF IndexIn(c, LowerCase) > 0 THEN UpperCase[IndexIn(c, LowerCase)] ELSE c

InCase(lit, mode) ==
    [i \in 1..Len(lit) |->
        IF mode = "upper" \/ (mode = "odd" /\ i % 2 = 1)
                          \/ (mode = "even" /\ i % 2 = 0)
        THEN to_ascii_uppercase(lit[i])
        ELSE lit[i]]

Lowered(s) == [i \in 1..Len(s) |-> to_ascii_lowercase(s[i])]

\* every tag as <<opening literal, rest of the opener, closing literal>>
CaseTags ==
    { <<Lit.b, <<>>, Lit.b_end>>,
      <<Lit.i, <<>>, Lit.i_end>>,
      <<Lit.u, <<>>, Lit.u_end>>,
      <<Lit.center, <<>>, Lit.center_end>>,
      <<Lit.color, <<"r", "e", "d", "]">>, Lit.color_end>>,
      <<Lit.size, <<"1", "2", "]">>, Lit.size_end>>,
      <<Lit.code, <<>>, Lit.code_end>>,
      <<Lit.img, <<>>, Lit.img_end>>,
      <<Lit.list, <<"]">> \o Lit.bullet, Lit.list_end>>,
      <<Lit.quote, <<"]">>, Lit.quote_end>>,
      <<Lit.url, <<>>, Lit.url_end>>,
      <<Lit.url_quoted, <<"x", "\"", "]">>, Lit.url_end>>,
      <<Lit.url_eq, <<"x", "]">>, Lit.url_end>> }

MaxCaseBody == 2

\* bodies: text (the closer is found by the text scan), nothing, or a
\* nested tag (the closer is matched by the recognizer itself)
CaseBodies ==
    Concats({<<"x">>, <<"U3">>}, MaxCaseBody)
        \cup {Lit.i \o Lit.i_end, <<"x">> \o InCase(Lit.i, "upper") \o Lit.i_end}

CaseInputs ==
    {InCase(g[1], m1) \o g[2] \o body \o InCase(g[3], m2) \o after :
        g \in CaseTags, m1 \in CaseModes, m2 \in CaseModes,
        body \in CaseBodies, after \in {<<>>, <<"x">>}}

SpecCase ==
    InitOn(CaseInputs) /\ [][NextParse]_vars

\* the outcome of a finished run of the loop, as parse reports it
Outcome == [k |-> IF pc = "parsed" THEN "ok" ELSE "panic", v |-> out]

\* C5: changing the ASCII case of letters of a tag's opening or closing
\* literal does not change the parse result: the input parses exactly as
\* the same input with those letters in lower case.
C5_CaseInsensitive ==
    pc # "parse" => Outcome = parse(Lowered(input))

\* a closer in upper case ends the text of a bold segment opened in lower
\* case, and the segment is recognized
C5_Witness ==
    /\ pc = "parsed"
    /\ input = Lit.b \o <<"x">> \o InCase(Lit.b_end, "upper")
    /\ out = <<Decorated(Bold, <<Text(4, 5)>>)>>

---------------------------------------------------------------------------
(* C6: the parameter of size *)

MaxDigits == 3

\* parameters: runs of at most MaxDigits characters, digits or a letter
SizeParamChars == {Digits[i] : i \in DOMAIN Digits} \cup {"x"}

RECURSIVE Runs(_, _)
Runs(chars, n) ==
    IF n = 0 THEN {<<>>}
    ELSE Runs(chars, n - 1)
             \cup {Append(r, c) : r \in Runs(chars, n - 1), c \in chars}

SizeInput(param) == Lit.size \o param \o <<"]", "x">> \o Lit.size_end

SpecSize ==
    InitOn({SizeInput(d) : d \in Runs(SizeParamChars, MaxDigits)}) /\ [][NextParse]_vars

\* the parameter of the input: what stands between "[size=" and "]x[/size]"
SizeParam(s) == SubSeq(s, Len(Lit.size) + 1, Len(s) - Len(Lit.size_end) - 2)

\* the number a run of decimal digits writes
RECURSIVE DecimalValue(_)
DecimalValue(d) ==
    IF d = <<>> THEN 0
    ELSE 10 * DecimalValue(SubSeq(d, 1, Len(d) - 1))
             + (IndexIn(d[Len(d)], Digits) - 1)

IsDecimal(d) == d # <<>> /\ \A i \in DOMAIN d : IndexIn(d[i], Digits) > 0

\* the parameter is a decimal integer from 2 to 29
SizeAccepted(d) == IsDecimal(d) /\ DecimalValue(d) >= 2 /\ DecimalValue(d) <= 29

\* the sizes of the Size styles of a tree
SizesIn(segs) ==
    {Nodes(segs)[i].style[2] :
        i \in {j \in DOMAIN Nodes(segs) :
                  /\ Nodes(segs)[j].kind = "Decorated"
                  /\ Nodes(segs)[j].style[1] = "Size"}}

\* C6: the size recognizer succeeds exactly when its parameter is a decimal
\* integer n with 2 <= n <= 29 and then yields Size(n); on any other
\* parameter it fails, the construct stays text, and no Size style of a
\* parse result is outside 2..29.
C6_SizeBounds ==
    /\ IsOk(size(input, 1)) <=> SizeAccepted(SizeParam(input))
    /\ IsOk(size_head(input, 1)) =>
           size_head(input, 1).v = DecimalValue(SizeParam(input))
    /\ SizesIn(out) \subseteq 2..29
    /\ pc = "parsed" /\ SizeAccepted(SizeParam(input)) =>
           out = <<Decorated(Size(DecimalValue(SizeParam(input))),
                             <<Text(Len(input) - Len(Lit.size_end),
                                    Len(input) - Len(Lit.size_end) + 1)>>)>>
    /\ pc = "parsed" /\ ~SizeAccepted(SizeParam(input)) =>
           out = <<Text(1, Len(input) + 1)>>
    /\ pc # "panic"

\* [size=29]x[/size] parsed to Size(29)
C6_WitnessAccepted ==
    /\ pc = "parsed"
    /\ SizeParam(input) = <<"2", "9">>
    /\ out = <<Decorated(Size(29), <<Text(10, 11)>>)>>

---------------------------------------------------------------------------
(* C7: the parameter of color *)

MaxHex == 7
MaxName == 3

\* the hex digits and the letters the parameters are written with
HexSample == {"1", "f", "E"}
NameLetters == {"r", "e", "d", "t", "a", "n"}

\* parameters: '#' and a run of hex digits, the two hex examples, a run of
\* letters, and a long unknown name
ColorParams ==
    {<<"#">> \o r : r \in Runs(HexSample, MaxHex)}
        \cup {<<"#", "8", "1", "f">>, <<"#", "0", "1", "F", "E", "9", "A">>}
        \cup (Runs(NameLetters, MaxName) \ {<<>>})
        \cup {<<"n", "o", "t", "a", "c", "o", "l", "o", "r">>}

ColorInput(param) == Lit.color \o param \o <<"]", "x">> \o Lit.color_end

SpecColor ==
    InitOn({ColorInput(c) : c \in ColorParams}) /\ [][NextParse]_vars

\* the parameter of the input: between "[color=" and "]x[/color]"
ColorParam(s) == SubSeq(s, Len(Lit.color) + 1, Len(s) - Len(Lit.color_end) - 2)

\* the value of a hex digit, upper or lower case
HexDigitValue(c) ==
    IF IndexIn(c, Digits) > 0 THEN IndexIn(c, Digits) - 1
    ELSE IF IndexIn(c, <<"a","b","c","d","e","f">>) > 0
         THEN 9 + IndexIn(c, <<"a","b","c","d","e","f">>)
         ELSE 9 + IndexIn(c, <<"A","B","C","D","E","F">>)

IsHexRun(d) == \A i \in DOMAIN d : d[i] \in HexChars

\* what the claim gives for a parameter: a triple, or <<>> for a parameter
\* that is no color
ColorOf(param) ==
    IF param # <<>> /\ param[1] = "#" /\ IsHexRun(Tail(param))
           /\ Len(param) = 4
    THEN <<16 * HexDigitValue(param[2]) + HexDigitValue(param[2]),
           16 * HexDigitValue(param[3]) + HexDigitValue(param[3]),
           16 * HexDigitValue(param[4]) + HexDigitValue(param[4])>>
    ELSE IF param # <<>> /\ param[1] = "#" /\ IsHexRun(Tail(param))
           /\ Len(param) = 7
    THEN <<16 * HexDigitValue(param[2]) + HexDigitValue(param[3]),
           16 * HexDigitValue(param[4]) + HexDigitValue(param[5]),
           16 * HexDigitValue(param[6]) + HexDigitValue(param[7])>>
    ELSE IF param = <<"r", "e", "d">> THEN <<255, 0, 0>>
    ELSE IF param = <<"t", "a", "n">> THEN <<210, 180, 140>>
    ELSE <<>>

\* C7: '#RGB' yields each digit d as the byte 16*d+d, '#RRGGBB' the three
\* bytes written, a CSS color name its triple from the table; any other
\* parameter fails the recognizer and the whole construct is literal text.
C7_ColorParam ==
    /\ IsOk(color_head(input, 1)) <=> ColorOf(ColorParam(input)) # <<>>
    /\ IsOk(color_head(input, 1)) =>
           /\ color_head(input, 1).v = ColorOf(ColorParam(input))
           /\ \A i \in 1..3 : color_head(input, 1).v[i] \in 0..255
    /\ pc = "parsed" /\ ColorOf(ColorParam(input)) # <<>> =>
           out = <<Decorated(<<"Color">> \o ColorOf(ColorParam(input)),
                             <<Text(Len(input) - Len(Lit.color_end),
                                    Len(input) - Len(Lit.color_end) + 1)>>)>>
    /\ pc = "parsed" /\ ColorOf(ColorParam(input)) = <<>> =>
           out = <<Text(1, Len(input) + 1)>>
    /\ pc # "panic"

\* [color=#81f]x[/color] parsed to Color(0x88, 0x11, 0xFF)
C7_WitnessShort ==
    /\ pc = "parsed"
    /\ ColorParam(input) = <<"#", "8", "1", "f">>
    /\ out = <<Decorated(Color(136, 17, 255), <<Text(13, 14)>>)>>

\* [color=notacolor]x[/color] parsed to one Text, the whole input
C7_WitnessUnknown ==
    /\ pc = "parsed"
    /\ ColorParam(input) = <<"n", "o", "t", "a", "c", "o", "l", "o", "r">>
    /\ out = <<Text(1, Len(input) + 1)>>

---------------------------------------------------------------------------
(* C8: the items of a list *)

MaxListFrags == 4

\* what stands between the head of the list and its "[/list]"
ListFrags == {Lit.bullet, <<" ", "x", "\n">>, <<"U2">>, Lit.b, Lit.b_end}

ListHeads ==
    {Lit.list \o <<"]">>, Lit.list \o <<"=", "a", "]">>, Lit.list \o <<"=", "1", "]">>}

ListInputs ==
    {h \o m \o Lit.list_end : h \in ListHeads, m \in Concats(ListFrags, MaxListFrags)}

SpecList ==
    InitOn(ListInputs) /\ [][NextParse]_vars

\* where the head of the list ends and where its "[/list]" starts
ListBodyStart(s) == IF s[6] = "]" THEN 7 ELSE 9
ListBodyEnd(s) == Len(s) - Len(Lit.list_end) + 1

\* every offset of the body at which a bullet marker stands, in order
RECURSIVE BulletsFrom(_, _)
BulletsFrom(s, q) ==
    IF q >= ListBodyEnd(s) THEN <<>>
    ELSE IF PrefixNoCase(s, q, Lit.bullet)
         THEN <<q>> \o BulletsFrom(s, q + Len(Lit.bullet))
         ELSE BulletsFrom(s, q + 1)

\* the bullet markers of the body that stand outside every segment
\* recognized inside an item: a recognized segment is stepped over whole
RECURSIVE OuterBulletsFrom(_, _)
OuterBulletsStep(s, q, coded) ==
    IF PrefixNoCase(s, q, Lit.bullet)
    THEN <<q>> \o OuterBulletsFrom(s, q + Len(Lit.bullet))
    ELSE IF IsOk(coded) THEN OuterBulletsFrom(s, coded.p)
    ELSE OuterBulletsFrom(s, q + 1)

OuterBulletsFrom(s, q) ==
    IF q >= ListBodyEnd(s) THEN <<>>
    ELSE OuterBulletsStep(s, q, coded_segment(s, q))

\* item k of `items` is the piece of the input from after bullet k to the
\* next bullet of `marks`, or to "[/list]" after the last: its leaves lie
\* in that piece, in order, and hold every text character of it
ItemSpans(s, items, marks, k) ==
    /\ \A i \in DOMAIN Leaves(items[k]) :
           /\ marks[k] + Len(Lit.bullet) <= Leaves(items[k])[i].b
           /\ Leaves(items[k])[i].b <= Leaves(items[k])[i].e
           /\ Leaves(items[k])[i].e
                  <= (IF k < Len(marks) THEN marks[k + 1] ELSE ListBodyEnd(s))
           /\ i > 1 => Leaves(items[k])[i - 1].e <= Leaves(items[k])[i].b
    /\ \A q \in (marks[k] + Len(Lit.bullet))
                  ..((IF k < Len(marks) THEN marks[k + 1] ELSE ListBodyEnd(s)) - 1) :
           s[q] \in PlainChars =>
               \E i \in DOMAIN Leaves(items[k]) :
                   Leaves(items[k])[i].b <= q /\ q < Leaves(items[k])[i].e

ItemsFollow(s, items, marks) ==
    /\ Len(items) = Len(marks)
    /\ \A k \in DOMAIN items : k <= Len(marks) => ItemSpans(s, items, marks, k)

\* the list the run recognized at the start of the input
ListRecognized == pc = "parsed" /\ out # <<>> /\ out[1].kind = "List"

C8_WitnessTwoItems ==
    /\ pc = "parsed"
    /\ input = Lit.list \o <<"]">> \o Lit.bullet \o <<" ", "x", "\n">>
                   \o Lit.bullet \o <<" ", "x", "\n">> \o Lit.list_end
    /\ out = <<List("Unordered", << <<Text(10, 13)>>, <<Text(16, 19)>> >>)>>

---------------------------------------------------------------------------
(* C9: the three forms of a link *)

MaxLinkFrags == 3

\* display texts and bare targets: text, an inner opener, an inner closer
LinkFrags == {<<"x">>, <<"U3">>, Lit.i, Lit.i_end}
LinkBodies == Concats(LinkFrags, MaxLinkFrags)

\* what follows the link: nothing, or text with a closer of the inner tag
LinkTails == {<<>>, <<"x">> \o Lit.i_end}

\* a tree moved d characters to the right
RECURSIVE Shifted(_, _)
RECURSIVE ShiftedItems(_, _)
ShiftedNode(g, d) ==
    IF g.kind \in {"Text", "Code", "Image"}
    THEN [g EXCEPT !.b = @ + d, !.e = @ + d]
    ELSE IF g.kind = "Decorated" THEN Decorated(g.style, Shifted(g.text, d))
    ELSE IF g.kind = "Quote"
         THEN Quote(IF g.attribution = <<>> THEN <<>>
                    ELSE <<g.attribution[1] + d, g.attribution[2] + d>>,
                    Shifted(g.body, d))
    ELSE IF g.kind = "Link"
         THEN Link(<<g.target[1] + d, g.target[2] + d>>, Shifted(g.text, d))
    ELSE List(g.style, ShiftedItems(g.items, d))

Shifted(segs, d) == [i \in DOMAIN segs |-> ShiftedNode(segs[i], d)]
ShiftedItems(items, d) == [i \in DOMAIN items |-> Shifted(items[i], d)]

\* the bare form around T: the target and the display text are T
BareCase(T, tail) ==
    [input |-> Lit.url \o T \o Lit.url_end \o tail,
     tree  |-> <<Link(<<Len(Lit.url) + 1, Len(Lit.url) + Len(T) + 1>>,
                      <<Text(Len(Lit.url) + 1, Len(Lit.url) + Len(T) + 1)>>)>>
                   \o Shifted(parse(tail).v, Len(Lit.url) + Len(T) + Len(Lit.url_end))]

\* a form with the target x between `open` and `shut`, around D: the
\* display text is D parsed by itself
TargetCase(open, shut, D, tail) ==
    [input |-> open \o <<"x">> \o shut \o D \o Lit.url_end \o tail,
     tree  |-> <<Link(<<Len(open) + 1, Len(open) + 2>>,
                      Shifted(parse(D).v, Len(open) + 1 + Len(shut)))>>
                   \o Shifted(parse(tail).v,
                              Len(open) + 1 + Len(shut) + Len(D) + Len(Lit.url_end))]

LinkCases ==
    {BareCase(T, tail) : T \in LinkBodies, tail \in LinkTails}
        \cup {TargetCase(Lit.url_quoted, <<"\"", "]">>, D, tail) :
                  D \in LinkBodies, tail \in LinkTails}
        \cup {TargetCase(Lit.url_eq, <<"]">>, D, tail) :
                  D \in LinkBodies, tail \in LinkTails}

SpecLink ==
    InitOn({c.input : c \in LinkCases}) /\ [][NextParse]_vars

\* C9: each of the forms [url]T[/url], [url="T"]D[/url] and [url=T]D[/url]
\* yields a Link with target T; the bare form's display text is the single
\* Text T; in the other forms D is parsed with terminal "[/url]": a
\* well-formed inner tag is a child, an inner opener with no closer before
\* "[/url]" stays text inside the link.
C9_LinkForms ==
    pc # "parse" =>
        \A c \in LinkCases :
            c.input = input => pc = "parsed" /\ out = c.tree

---------------------------------------------------------------------------
(* Renderer::render (render.rs): the default traversal, one hook call or   *)
(* one return per step.  stack holds the loops in progress, innermost      *)
(* last: a frame "segs" is `for segment in segments` of one call of        *)
(* render, a frame "items" is `for item in items` of the List arm; i is    *)
(* the element the loop is at, open tells that its begin hook was called.  *)
(* hooks records the calls made to the sink: the hook, its argument and    *)
(* the segment (or item) the call was made for.                            *)

Frame(kind, seq) == [kind |-> kind, seq |-> seq, i |-> 1, open |-> FALSE]

Top == stack[Len(stack)]
Below == SubSeq(stack, 1, Len(stack) - 1)

\* the segment the innermost `for segment in segments` is at
Cur == Top.seq[Top.i]
AtSegment == pc = "render" /\ Top.kind = "segs" /\ Top.i <= Len(Top.seq)

LeafKinds == {"Text", "Code", "Image"}
BracketKinds == {"Decorated", "Quote", "Link"}

\* the arms of the match: the hook of a leaf, the hooks around a body
LeafHook(g) ==
    IF g.kind = "Text" THEN "text" ELSE IF g.kind = "Code" THEN "code" ELSE "image"

BeginHook(g) ==
    IF g.kind = "Decorated" THEN "decoration_begin"
    ELSE IF g.kind = "Quote" THEN "quote_begin"
    ELSE IF g.kind = "Link" THEN "link_begin"
    ELSE "list_begin"

\* a traversal that calls the begin hook again where the end hook belongs
C10_MutantBeginTwice(g) == BeginHook(g)

EndHook(g) ==
    IF g.kind = "Decorated" THEN "decoration_end"
    ELSE IF g.kind = "Quote" THEN "quote_end"
    ELSE IF g.kind = "Link" THEN "link_end"
    ELSE "list_end"

\* the argument the arms pass to the hooks of a segment
HookArg(g) ==
    IF g.kind \in LeafKinds THEN <<g.b, g.e>>
    ELSE IF g.kind = "Decorated" THEN g.style
    ELSE IF g.kind = "Quote" THEN g.attribution
    ELSE IF g.kind = "Link" THEN g.target
    ELSE g.style

\* the segments the arm passes to the nested call of render
Children(g) ==
    IF g.kind = "Decorated" THEN g.text
    ELSE IF g.kind = "Quote" THEN g.body
    ELSE g.text

Called(hook, arg, seg) == [hook |-> hook, arg |-> arg, seg |-> seg]

\* a hook call and the `?` on its result: Ok goes on with the stack `then`,
\* Err returns from every call of render in progress
CallHook(call, ok, then) ==
    /\ hooks' = Append(hooks, call)
    /\ IF ok THEN stack' = then /\ pc' = pc
       ELSE stack' = <<>> /\ pc' = "failed"
    /\ UNCHANGED <<input, pos, out, written, stdout>>

\* the loop of the innermost frame moved to its next element
Advanced(frames) ==
    [frames EXCEPT ![Len(frames)] = [@ EXCEPT !.i = @ + 1, !.open = FALSE]]
Opened(frames) ==
    [frames EXCEPT ![Len(frames)] = [@ EXCEPT !.open = TRUE]]

\* Segment::Text, Segment::Code, Segment::Image
RenderLeaf ==
    /\ AtSegment /\ Cur.kind \in LeafKinds
    /\ \E ok \in BOOLEAN :
           CallHook(Called(LeafHook(Cur), HookArg(Cur), Cur), ok, Advanced(stack))

\* Decorated, Quote, Link: the begin hook, then render on the body
RenderBegin ==
    /\ AtSegment /\ Cur.kind \in BracketKinds /\ ~Top.open
    /\ \E ok \in BOOLEAN :
           CallHook(Called(BeginHook(Cur), HookArg(Cur), Cur), ok,
                    Append(Opened(stack), Frame("segs", Children(Cur))))

\* Ok(()) of a nested call of render: back in the caller
RenderReturn ==
    /\ pc = "render" /\ Top.kind = "segs" /\ Top.i > Len(Top.seq)
    /\ Len(stack) > 1
    /\ stack' = Below
    /\ UNCHANGED <<input, pos, out, pc, hooks, written, stdout>>

\* Decorated, Quote, Link: the end hook after the body
RenderEnd ==
    /\ AtSegment /\ Cur.kind \in BracketKinds /\ Top.open
    /\ \E ok \in BOOLEAN :
           CallHook(Called(EndHook(Cur), HookArg(Cur), Cur), ok, Advanced(stack))

\* List: list_begin, then the loop over the items
ListBegin ==
    /\ AtSegment /\ Cur.kind = "List" /\ ~Top.open
    /\ \E ok \in BOOLEAN :
           CallHook(Called("list_begin", Cur.style, Cur), ok,
                    Append(Opened(stack), Frame("items", Cur.items)))

\* the list whose items the innermost frame loops over
CurList == stack[Len(stack) - 1].seq[stack[Len(stack) - 1].i]
AtItems == pc = "render" /\ Top.kind = "items"

\* list_item_begin, then render on the item
ListItemBegin ==
    /\ AtItems /\ Top.i <= Len(Top.seq) /\ ~Top.open
    /\ \E ok \in BOOLEAN :
           CallHook(Called("list_item_begin", CurList.style, Top.seq[Top.i]), ok,
                    Append(Opened(stack), Frame("segs", Top.seq[Top.i])))

\* list_item_end after the item
ListItemEnd ==
    /\ AtItems /\ Top.i <= Len(Top.seq) /\ Top.open
    /\ \E ok \in BOOLEAN :
           CallHook(Called("list_item_end", CurList.style, Top.seq[Top.i]), ok,
                    Advanced(stack))

\* list_end after the last item
ListEnd ==
    /\ AtItems /\ Top.i > Len(Top.seq)
    /\ \E ok \in BOOLEAN :
           CallHook(Called("list_end", CurList.style, CurList), ok, Advanced(Below))

\* Ok(()) of the outermost call of render
RenderFinish ==
    /\ pc = "render" /\ Top.kind = "segs" /\ Top.i > Len(Top.seq)
    /\ Len(stack) = 1
    /\ stack' = <<>>
    /\ pc' = "rendered"
    /\ UNCHANGED <<input, pos, out, hooks, written, stdout>>

NextRender ==
    \/ RenderLeaf
    \/ RenderBegin
    \/ RenderReturn
    \/ RenderEnd
    \/ ListBegin
    \/ ListItemBegin
    \/ ListItemEnd
    \/ ListEnd
    \/ RenderFinish

\* the trees given to render: every sequence of segments of at most
\* MaxNodes nodes in all, a list item counting as a node
MaxNodes == 3

RECURSIVE TreesOf(_)
RECURSIVE ForestsOf(_)
RECURSIVE ItemsOf(_)
TreesOf(n) ==
    IF n = 0 THEN {}
    ELSE (IF n = 1 THEN {Text(1, 2), Code(1, 2), Image(1, 2)} ELSE {})
         \cup {Decorated(Bold, c) : c \in ForestsOf(n - 1)}
         \cup {Quote(<<>>, c) : c \in ForestsOf(n - 1)}
         \cup {Link(<<1, 2>>, c) : c \in ForestsOf(n - 1)}
         \cup {List("Unordered", c) : c \in ItemsOf(n - 1)}

ForestsOf(n) ==
    IF n = 0 THEN {<<>>}
    ELSE UNION {{<<g>> \o f : g \in TreesOf(k), f \in ForestsOf(n - k)} :
                   k \in 1..n}

ItemsOf(n) ==
    IF n = 0 THEN {<<>>}
    ELSE UNION {{<<item>> \o r : item \in ForestsOf(k - 1), r \in ItemsOf(n - k)} :
                   k \in 1..n}

InitRender ==
    /\ input = <<>>
    /\ pos = 1
    /\ out \in UNION {ForestsOf(n) : n \in 0..MaxNodes}
    /\ pc = "render"
    /\ stack = <<Frame("segs", out)>>
    /\ hooks = <<>>
    /\ written = <<>>
    /\ stdout = <<>>

SpecRender == InitRender /\ [][NextRender]_vars

---------------------------------------------------------------------------
(* C10 *)

\* the calls of a depth-first pre-order walk: a leaf is its one hook, a
\* compound node its begin hook, the walks of its children, its end hook
RECURSIVE PreOrder(_)
RECURSIVE PreOrderItems(_, _)
PreOrderNode(g) ==
    IF g.kind = "Text" THEN <<Called("text", <<g.b, g.e>>, g)>>
    ELSE IF g.kind = "Code" THEN <<Called("code", <<g.b, g.e>>, g)>>
    ELSE IF g.kind = "Image" THEN <<Called("image", <<g.b, g.e>>, g)>>
    ELSE IF g.kind = "Decorated"
         THEN <<Called("decoration_begin", g.style, g)>> \o PreOrder(g.text)
                  \o <<Called("decoration_end", g.style, g)>>
    ELSE IF g.kind = "Quote"
         THEN <<Called("quote_begin", g.attribution, g)>> \o PreOrder(g.body)
                  \o <<Called("quote_end", g.attribution, g)>>
    ELSE IF g.kind = "Link"
         THEN <<Called("link_begin", g.target, g)>> \o PreOrder(g.text)
                  \o <<Called("link_end", g.target, g)>>
    ELSE <<Called("list_begin", g.style, g)>> \o PreOrderItems(g.items, g.style)
             \o <<Called("list_end", g.style, g)>>

PreOrder(segs) ==
    IF segs = <<>> THEN <<>>
    ELSE PreOrderNode(Head(segs)) \o PreOrder(Tail(segs))

PreOrderItems(items, style) ==
    IF items = <<>> THEN <<>>
    ELSE <<Called("list_item_begin", style, Head(items))>>
             \o PreOrder(Head(items))
             \o <<Called("list_item_end", style, Head(items))>>
             \o PreOrderItems(Tail(items), style)

IsPrefix(a, b) == Len(a) <= Len(b) /\ SubSeq(b, 1, Len(a)) = a

BeginHooks ==
    {"decoration_begin", "quote_begin", "link_begin", "list_begin",
     "list_item_begin"}
EndHooks ==
    {"decoration_end", "quote_end", "link_end", "list_end", "list_item_end"}

EndOf(hook) ==
    IF hook = "decoration_begin" THEN "decoration_end"
    ELSE IF hook = "quote_begin" THEN "quote_end"
    ELSE IF hook = "link_begin" THEN "link_end"
    ELSE IF hook = "list_begin" THEN "list_end"
    ELSE "list_item_end"

\* the begins still open after the first n calls; "unmatched" on top once
\* an end did not close the innermost open begin
Unmatched == [hook |-> "unmatched"]

RECURSIVE OpenAfter(_, _)
OpenStep(open, h) ==
    IF open # <<>> /\ open[Len(open)].hook = "unmatched" THEN open
    ELSE IF h.hook \in BeginHooks THEN Append(open, h)
    ELSE IF h.hook \in EndHooks
         THEN (IF open # <<>> /\ EndOf(open[Len(open)].hook) = h.hook
                     /\ open[Len(open)].arg = h.arg
                     /\ open[Len(open)].seg = h.seg
               THEN SubSeq(open, 1, Len(open) - 1)
               ELSE <<Unmatched>>)
    ELSE open

OpenAfter(hs, n) ==
    IF n = 0 THEN <<>> ELSE OpenStep(OpenAfter(hs, n - 1), hs[n])

\* what a begin call brackets: the body of its segment, or its item
Bracketed(h) ==
    IF h.hook = "list_item_begin" THEN h.seg
    ELSE IF h.hook = "list_begin" THEN h.seg.items
    ELSE IF h.hook = "decoration_begin" THEN h.seg.text
    ELSE IF h.hook = "quote_begin" THEN h.seg.body
    ELSE h.seg.text

\* C10: the traversal calls the hooks depth-first in pre-order: begin, the
\* children in order, end, and one hook per leaf; every begin is matched
\* by one later end of the same kind, properly nested; a compound node with
\* no children has its end right after its begin.  (A hook that returns an
\* error ends the traversal: the calls made are then a prefix of the walk.)
C10_RenderOrder ==
    pc \in {"render", "rendered", "failed"} =>
        /\ IsPrefix(hooks, PreOrder(out))
        /\ (pc = "rendered" => hooks = PreOrder(out))
        /\ OpenAfter(hooks, Len(hooks)) # <<Unmatched>>
        /\ (pc = "rendered" => OpenAfter(hooks, Len(hooks)) = <<>>)
        /\ \A i \in 1..(Len(hooks) - 1) :
               hooks[i].hook \in BeginHooks /\ Bracketed(hooks[i]) = <<>> =>
                   /\ hooks[i + 1].hook = EndOf(hooks[i].hook)
                   /\ hooks[i + 1].seg = hooks[i].seg

\* a finished traversal of a list with one empty item and of an empty bold
C10_WitnessEmptyBodies ==
    /\ pc = "rendered"
    /\ out = <<List("Unordered", << <<>> >>), Decorated(Bold, <<>>)>>
    /\ Len(hooks) = 6

\* a finished traversal of a link around a quote around a text
C10_WitnessNested ==
    /\ pc = "rendered"
    /\ out = <<Link(<<1, 2>>, <<Quote(<<>>, <<Text(1, 2)>>)>>)>>
    /\ Len(hooks) = 5

---------------------------------------------------------------------------
(* SimpleHtml (render.rs): the sink that writes HTML to `self.out`.  A     *)
(* hook is modelled by the characters it writes when every write succeeds; *)
(* the underlying writer may fail in the middle of a hook, which then has  *)
(* written a proper prefix of them and returns the error.                  *)

\* the literal pieces of the format strings of the hooks
Markup ==
    [ amp |-> <<"&","a","m","p",";">>,
      lt |-> <<"&","l","t",";">>,
      gt |-> <<"&","g","t",";">>,
      br |-> <<"<","b","r",">">>,
      quot |-> <<"&","q","u","o","t",";">>,
      b |-> <<"b">>,
      i |-> <<"i">>,
      u |-> <<"u">>,
      center |-> <<"d","i","v"," ","s","t","y","l","e","=","\"","t","e",
          "x","t","-","a","l","i","g","n",":","c","e","n","t","e","r",
          "\"">>,
      div |-> <<"d","i","v">>,
      span |-> <<"s","p","a","n">>,
      color |-> <<"<","s","p","a","n"," ","s","t","y","l","e","=","\"","c",
          "o","l","o","r",":"," ","#">>,
      color_close |-> <<"\"",">">>,
      size |-> <<"<","s","p","a","n"," ","s","t","y","l","e","=","\"","f",
          "o","n","t","-","s","i","z","e",":"," ">>,
      size_close |-> <<">">>,
      quote_by |-> <<"<","d","i","v",">">>,
      wrote |-> <<" ","w","r","o","t","e",":","<","/","d","i","v",">","<",
          "d","i","v",">">>,
      quote_anon |-> <<"<","d","i","v",">","Q","u","o","t","e",":","<","/",
          "d","i","v",">","<","d","i","v",">">>,
      quote_end |-> <<"<","/","d","i","v",">">>,
      pre |-> <<"<","p","r","e",">">>,
      pre_end |-> <<"<","/","p","r","e",">">>,
      img |-> <<"<","i","m","g"," ","s","r","c","=","\"">>,
      img_close |-> <<">">> ]

\* str::find(escapes): the index of the first character of str that is one
\* of escapes, 0 for None
find(str, escapes) ==
    IF \E i \in DOMAIN str : str[i] \in Range(escapes)
    THEN CHOOSE i \in DOMAIN str :
             /\ str[i] \in Range(escapes)
             /\ \A j \in 1..(i - 1) : str[j] \notin Range(escapes)
    ELSE 0

\* an escaping that stops after the first replacement
C12_MutantFirstOnly(str, escapes, replacements) ==
    IF find(str, escapes) = 0 THEN str
    ELSE SubSeq(str, 1, find(str, escapes) - 1)
         \o replacements[IndexIn(str[find(str, escapes)], escapes)]
         \o SubSeq(str, find(str, escapes) + 1, Len(str))

\* write_escaped: the loop splits at the first escaped character, writes
\* the head and the replacement and goes on with the tail past it; the
\* rest is written as it is
RECURSIVE write_escaped(_, _, _)
write_escaped_at(str, split, escapes, replacements) ==
    IF split = 0 THEN str
    ELSE SubSeq(str, 1, split - 1)
         \o replacements[IndexIn(str[split], escapes)]
         \o write_escaped(SubSeq(str, split + 1, Len(str)), escapes, replacements)

write_escaped(str, escapes, replacements) ==
    write_escaped_at(str, find(str, escapes), escapes, replacements)

\* "{:02x}" of a u8
lower_hex2(v) == <<HexDigits[(v \div 16) + 1], HexDigits[(v % 16) + 1]>>

\* "{}" of a NonZeroU8
RECURSIVE display_u8(_)
display_u8(v) ==
    IF v < 10 THEN <<Digits[v + 1]>>
    ELSE display_u8(v \div 10) \o <<Digits[(v % 10) + 1]>>

\* fn text
SimpleHtml_text(str) ==
    write_escaped(str, <<"&", "<", ">", "\n">>,
                  <<Markup.amp, Markup.lt, Markup.gt, Markup.br>>)

\* fn decoration_begin
SimpleHtml_decoration_begin(style) ==
    IF style[1] = "Color"
    THEN Markup.color \o lower_hex2(style[2]) \o lower_hex2(style[3])
             \o lower_hex2(style[4]) \o Markup.color_close
    ELSE IF style[1] = "Size"
    THEN Markup.size \o display_u8(style[2]) \o Markup.size_close
    ELSE <<"<">>
         \o (IF style = Bold THEN Markup.b
             ELSE IF style = Italic THEN Markup.i
             ELSE IF style = Underline THEN Markup.u
             ELSE Markup.center)
         \o <<">">>

\* fn decoration_end
SimpleHtml_decoration_end(style) ==
    <<"<">>
    \o (IF style = Bold THEN Markup.b
        ELSE IF style = Italic THEN Markup.i
        ELSE IF style = Underline THEN Markup.u
        ELSE IF style = Center THEN Markup.div
        ELSE Markup.span)
    \o <<">">>

\* fn quote_begin: attribution is <<>> for None, else <<orig>>
SimpleHtml_quote_begin(attribution) ==
    IF attribution # <<>>
    THEN Markup.quote_by \o attribution[1] \o Markup.wrote
    ELSE Markup.quote_anon

\* fn quote_end
SimpleHtml_quote_end == Markup.quote_end

\* fn code: "<pre>", self.text(s), "</pre>"
SimpleHtml_code(str) == Markup.pre \o SimpleHtml_text(str) \o Markup.pre_end

\* fn image
SimpleHtml_image(src) ==
    Markup.img
    \o write_escaped(src, <<"<", ">", "\"">>,
                     <<Markup.lt, Markup.gt, Markup.quot>>)
    \o Markup.img_close

\* the &str of a span of s
str_of(s, span) == SubSeq(s, span[1], span[2] - 1)

\* what a hook of SimpleHtml does on the call: the characters it writes, or
\* the panic of unimplemented!() in list_begin, list_item_begin,
\* list_item_end, list_end, link_begin and link_end
SimpleHtml(s, call) ==
    IF call.hook = "text"
    THEN [k |-> "ok", bytes |-> SimpleHtml_text(str_of(s, call.arg))]
    ELSE IF call.hook = "code"
    THEN [k |-> "ok", bytes |-> SimpleHtml_code(str_of(s, call.arg))]
    ELSE IF call.hook = "image"
    THEN [k |-> "ok", bytes |-> SimpleHtml_image(str_of(s, call.arg))]
    ELSE IF call.hook = "decoration_begin"
    THEN [k |-> "ok", bytes |-> SimpleHtml_decoration_begin(call.arg)]
    ELSE IF call.hook = "decoration_end"
    THEN [k |-> "ok", bytes |-> SimpleHtml_decoration_end(call.arg)]
    ELSE IF call.hook = "quote_begin"
    THEN [k |-> "ok",
          bytes |-> SimpleHtml_quote_begin(
                        IF call.arg = <<>> THEN <<>>
                        ELSE <<str_of(s, call.arg)>>)]
    ELSE IF call.hook = "quote_end"
    THEN [k |-> "ok", bytes |-> SimpleHtml_quote_end]
    ELSE [k |-> "panic", bytes |-> <<>>]

\* a hook call on SimpleHtml and the `?` on its result r: the hook panics,
\* or writes everything and returns Ok, or the writer fails after a proper
\* prefix and the error is returned from every call of render in progress
CallSimpleHtml(call, r, then) ==
    /\ hooks' = Append(hooks, call)
    /\ IF r.k = "panic"
       THEN written' = written /\ stack' = <<>> /\ pc' = "abort"
       ELSE \/ written' = written \o r.bytes /\ stack' = then /\ pc' = pc
            \/ \E n \in 0..(Len(r.bytes) - 1) :
                   /\ written' = written \o SubSeq(r.bytes, 1, n)
                   /\ stack' = <<>>
                   /\ pc' = "failed"
    /\ UNCHANGED <<input, pos, out, stdout>>

\* main (bbcode2html.rs): SimpleHtml::new(..).render(&bbcode::parse(&text))
StartRender ==
    /\ pc = "parsed"
    /\ pc' = "render"
    /\ stack' = <<Frame("segs", out)>>
    /\ UNCHANGED <<input, pos, out, hooks, written, stdout>>

\* Segment::Text, Segment::Code, Segment::Image
HtmlLeaf ==
    /\ AtSegment /\ Cur.kind \in LeafKinds
    /\ CallSimpleHtml(Called(LeafHook(Cur), HookArg(Cur), Cur),
                      SimpleHtml(input, Called(LeafHook(Cur), HookArg(Cur), Cur)),
                      Advanced(stack))

\* Decorated, Quote, Link, List: the begin hook, then the body.  list_begin
\* never returns, so the loop over the items of a List is never entered
HtmlBegin ==
    /\ AtSegment /\ Cur.kind \notin LeafKinds /\ ~Top.open
    /\ CallSimpleHtml(Called(BeginHook(Cur), HookArg(Cur), Cur),
                      SimpleHtml(input, Called(BeginHook(Cur), HookArg(Cur), Cur)),
                      Append(Opened(stack),
                             IF Cur.kind = "List" THEN Frame("items", Cur.items)
                             ELSE Frame("segs", Children(Cur))))

\* Decorated, Quote, Link: the end hook after the body
HtmlEnd ==
    /\ AtSegment /\ Cur.kind \in BracketKinds /\ Top.open
    /\ CallSimpleHtml(Called(EndHook(Cur), HookArg(Cur), Cur),
                      SimpleHtml(input, Called(EndHook(Cur), HookArg(Cur), Cur)),
                      Advanced(stack))

NextHtml ==
    \/ HtmlLeaf
    \/ HtmlBegin
    \/ HtmlEnd
    \/ RenderReturn
    \/ RenderFinish

\* the program: parse, then render through SimpleHtml
NextMain == NextParse \/ StartRender \/ NextHtml

\* the inputs: a text of at most MaxHtmlText characters, bare or as the
\* body of one tag
MaxHtmlText == 2

HtmlChars == {"&", "<", ">", "\n", "\"", "x", "U2"}

HtmlTags ==
    { <<<<>>, <<>>>>,
      <<Lit.b, Lit.b_end>>,
      <<Lit.i, Lit.i_end>>,
      <<Lit.u, Lit.u_end>>,
      <<Lit.center, Lit.center_end>>,
      <<Lit.color \o <<"t","a","n","]">>, Lit.color_end>>,
      <<Lit.color \o <<"#","1","f","E","]">>, Lit.color_end>>,
      <<Lit.size \o <<"9","]">>, Lit.size_end>>,
      <<Lit.size \o <<"1","2","]">>, Lit.size_end>>,
      <<Lit.code, Lit.code_end>>,
      <<Lit.img, Lit.img_end>>,
      <<Lit.quote \o <<"]">>, Lit.quote_end>>,
      <<Lit.quote \o <<"=","\"","x","\"","]">>, Lit.quote_end>>,
      <<Lit.list \o <<"]">> \o Lit.bullet, Lit.list_end>>,
      <<Lit.url, Lit.url_end>>,
      <<Lit.url_eq \o <<"x","]">>, Lit.url_end>> }

HtmlInputs ==
    {t[1] \o body \o t[2] : t \in HtmlTags, body \in Concats(HtmlChars, MaxHtmlText)}
    \cup {<<"&", "<", ">", "\n">>}

SpecHtml == InitOn(HtmlInputs) /\ [][NextMain]_vars

---------------------------------------------------------------------------
(* C11 *)

\* C11: rendering the tree of any input through SimpleHtml ends with Ok or
\* with the writer's error, the hooks called being the walk of the tree up
\* to the first failing one; no hook is unimplemented, so the render never
\* aborts, on a list, a list item or a link either.
C11_RenderOutcome ==
    /\ pc # "abort"
    /\ pc \in {"render", "rendered", "failed"} => IsPrefix(hooks, PreOrder(out))

---------------------------------------------------------------------------
(* C12: the text hook *)

\* the step is a call of `hook` that returned Ok
Returned(hook) ==
    /\ Len(hooks') = Len(hooks) + 1
    /\ hooks'[Len(hooks')].hook = hook
    /\ pc' = "render"

\* the characters the step wrote
Wrote == SubSeq(written', Len(written) + 1, Len(written'))

\* the text the leaf hook of the step was called with
LeafStr == SubSeq(input, hooks'[Len(hooks')].arg[1], hooks'[Len(hooks')].arg[2] - 1)

\* one character escaped: '&', '<', '>' by their entities, a newline by the
\* line-break marker when breaks is set, any other character unchanged
EscapedChar(c, breaks) ==
    IF c = "&" THEN <<"&","a","m","p",";">>
    ELSE IF c = "<" THEN <<"&","l","t",";">>
    ELSE IF c = ">" THEN <<"&","g","t",";">>
    ELSE IF c = "\n" /\ breaks THEN <<"<","b","r",">">>
    ELSE <<c>>

RECURSIVE Escaped(_, _)
Escaped(str, breaks) ==
    IF str = <<>> THEN <<>>
    ELSE EscapedChar(Head(str), breaks) \o Escaped(Tail(str), breaks)

\* C12: the text hook writes its input with every '&' replaced by "&amp;",
\* every '<' by "&lt;", every '>' by "&gt;" and every newline by "<br>",
\* and every other character unchanged, in order, exactly once.
C12_TextEscaping ==
    [][Returned("text") => written' = written \o Escaped(LeafStr, TRUE)]_vars

\* the text "&<>" and a newline rendered to the four replacements
C12_Witness ==
    /\ pc = "rendered"
    /\ input = <<"&", "<", ">", "\n">>
    /\ hooks = <<Called("text", <<1, 5>>, Text(1, 5))>>
    /\ written = <<"&","a","m","p",";", "&","l","t",";", "&","g","t",";",
                   "<","b","r",">">>

---------------------------------------------------------------------------
(* C13: the code hook *)

\* C13: the code hook writes the body inside a preformatted block, with
\* '&', '<' and '>' escaped as in text and every newline left as a literal
\* newline: no line-break marker is written for a newline of a code body.
C13_CodeKeepsNewlines ==
    [][Returned("code") =>
           written' = written \o <<"<","p","r","e",">">>
                          \o Escaped(LeafStr, FALSE)
                          \o <<"<","/","p","r","e",">">>]_vars

---------------------------------------------------------------------------
(* C14: the decoration hooks *)

\* the element a decoration is wrapped in
ElementOf(style) ==
    IF style = Bold THEN <<"b">>
    ELSE IF style = Italic THEN <<"i">>
    ELSE IF style = Underline THEN <<"u">>
    ELSE IF style = Center THEN <<"d","i","v">>
    ELSE <<"s","p","a","n">>

Count(seq, c) == Cardinality({i \in DOMAIN seq : seq[i] = c})

\* a well-formed opening tag of the element `name`: "<name", attributes
\* after a space if any, ">", with every quote of an attribute closed
OpeningTag(w, name) ==
    /\ Len(w) >= Len(name) + 2
    /\ w[1] = "<"
    /\ SubSeq(w, 2, Len(name) + 1) = name
    /\ w[Len(name) + 2] \in {" ", ">"}
    /\ w[Len(w)] = ">"
    /\ Count(w, "<") = 1
    /\ Count(w, ">") = 1
    /\ Count(w, "\"") % 2 = 0

ClosingTag(name) == <<"<", "/">> \o name \o <<">">>

\* C14: for every decoration style the begin hook writes a well-formed
\* opening tag of the style's element (b, i, u, div, span), any attribute
\* properly quoted, and the end hook writes the closing tag of that same
\* element, so that every element a decoration opens is closed.
C14_DecorationMarkup ==
    [][/\ Returned("decoration_begin") =>
              OpeningTag(Wrote, ElementOf(hooks'[Len(hooks')].arg))
       /\ Returned("decoration_end") =>
              Wrote = ClosingTag(ElementOf(hooks'[Len(hooks')].arg))]_vars

---------------------------------------------------------------------------
(* C15: text_segment *)

\* the terminals the recognizers hand to text_segment
ScanTerminals == {<<>>, <<Lit.b_end>>, <<Lit.i_end>>, ListTerminal}

\* offset idx ends a text: the terminal leads there or a recognizer succeeds
EndsAt(s, idx, T) == leads(T, s, idx) = "true" \/ IsOk(coded_segment(s, idx))

\* the first offset after the first character of s[p..] that ends the text,
\* the end of s when there is none
FirstEnd(s, p, T) ==
    IF \E idx \in (p + 1)..Len(s) : EndsAt(s, idx, T)
    THEN CHOOSE idx \in (p + 1)..Len(s) :
             /\ EndsAt(s, idx, T)
             /\ \A j \in (p + 1)..(idx - 1) : ~EndsAt(s, j, T)
    ELSE Len(s) + 1

\* C15: text_segment(input, T) fails, consuming nothing, when T matches at
\* offset 0 or when the input is empty, so it never returns a zero-length
\* text; otherwise it returns as text the non-empty prefix that ends at the
\* first offset after the first character at which T matches or a tag
\* recognizer succeeds, the remainder left unconsumed, and the whole input
\* when there is no such offset.  (Stated of the calls that return.)
C15_TextSegment ==
    \A T \in ScanTerminals : \A p \in 1..(Len(input) + 1) :
        text_segment(input, p, T).k # "panic" =>
            IF p > Len(input) \/ leads(T, input, p) = "true"
            THEN ~IsOk(text_segment(input, p, T))
            ELSE text_segment(input, p, T)
                     = Ok(FirstEnd(input, p, T), <<p, FirstEnd(input, p, T)>>)

---------------------------------------------------------------------------
(* C16 *)

\* C16: parsing has no side effect: no recognizer, the verbatim-body scan
\* of code, image and the bare link included, writes to the standard
\* output, whether it succeeds or fails; the only characters the program
\* writes are those of the render sink.
C16_ParseWritesNothing == stdout = <<>>

=============================================================================
